---- MODULE Spec2Model ----
(***************************************************************************)
(* Credential guard and request handling of web/app.py (_api_web) together *)
(* with the QR login sequence of examples/qrcode_login.py.                 *)
(*                                                                         *)
(* Requests are coroutines of one asyncio event loop: a request runs       *)
(* without interruption up to its next await, where any other request may  *)
(* run.  credential_lock is a threading.Lock: acquiring it while another   *)
(* (suspended) request holds it blocks the event-loop thread itself.       *)
(*                                                                         *)
(* The Credential class, the Parser class and the session object of the    *)
(* client library are not part of the two source files; their behaviour is *)
(* taken from the written specification (sections 3, 4.2 and 6).           *)
(* The durable storage is assumed to perform the writes it is asked for.   *)
(***************************************************************************)
EXTENDS Integers, FiniteSets, TLC

\* ------------------------------------------------------------------ bounds
NumTasks == 2        \* request coroutines that may be in flight together
MaxTime  == 1        \* the clock runs 0..MaxTime
TTL      == 1        \* life time of a freshly issued or refreshed credential
MaxPolls == 2        \* check_qrcode polls before the 60s timeout has passed

Tasks == 1..NumTasks

\* ------------------------------------------------------------- credentials
\* None
NoCred == [musicid |-> 0, musickey |-> 0, refresh_key |-> 0, expired_at |-> 0]

has_musicid(c)  == c.musicid # 0
has_musickey(c) == c.musickey # 0
can_refresh(c)  == c.refresh_key # 0
is_expired(c, clock) == clock >= c.expired_at

\* Credential.refresh(): renews the expiry of the same object
refresh(c, clock) == [c EXCEPT !.expired_at = clock + TTL]

\* a mapping is a set of <<key, value>> pairs
DictGet(d, k, dflt) == IF \E p \in d : p[1] = k THEN (CHOOSE p \in d : p[1] = k)[2] ELSE dflt

as_dict(c) == { <<"musicid", c.musicid>>, <<"musickey", c.musickey>>,
                <<"refresh_key", c.refresh_key>>, <<"expired_at", c.expired_at>> }

from_cookies_dict(d) ==
    [musicid     |-> DictGet(d, "musicid", 0),
     musickey    |-> DictGet(d, "musickey", 0),
     refresh_key |-> DictGet(d, "refresh_key", 0),
     expired_at  |-> DictGet(d, "expired_at", 0)]

\* ------------------------------------------------------------ storage file
AbsentFile  == [kind |-> "absent",  haskey |-> FALSE, cookies |-> {}]
CorruptFile == [kind |-> "corrupt", haskey |-> FALSE, cookies |-> {}]
JsonFile(hk, d) == [kind |-> "json", haskey |-> hk, cookies |-> d]

\* the mapping written under another member name than "cookies"
JsonDumpOtherKey(d) == JsonFile(FALSE, d)

\* json.dump({"cookies": ...}, f) on a file opened with "w"
JsonDumpCookies(d) == JsonFile(TRUE, d)

\* the file as load_credential_from_file leaves it
FileAfterLoad(f) == IF f.kind = "absent" THEN JsonDumpCookies({}) ELSE f

\* the value load_credential_from_file returns
load_credential_from_file(f) ==
    LET g == FileAfterLoad(f)
    IN  IF g.kind = "corrupt" THEN {}
        ELSE IF g.haskey THEN g.cookies ELSE {}

save_credential_to_file(c) == JsonDumpCookies(as_dict(c))

\* what the file may hold when the process starts
StoredDicts ==
    { {}, {<<"musicid", 1>>, <<"expired_at", 0>>} }
    \cup { as_dict([musicid |-> 1, musickey |-> 1, refresh_key |-> r, expired_at |-> 0])
           : r \in {0, 1} }
    \cup { as_dict([musicid |-> 1, musickey |-> 1, refresh_key |-> 1, expired_at |-> TTL]) }
InitialFiles ==
    {AbsentFile, CorruptFile} \cup { JsonFile(TRUE, d) : d \in StoredDicts }

\* ----------------------------------------------------------------- requests
\* the module and function named by the request are known to the dispatcher or not
ReqKinds == {"unknown", "known"}

\* Parser(module, func, params).parse(): <<errors, valid>> it may come back with
ParseOutcomes(kind) ==
    IF kind = "unknown" THEN { <<"notfound", FALSE>> }
    ELSE { <<"validation", FALSE>>,   \* a required parameter is missing
           <<"validation", TRUE>>,    \* a value fails coercion
           <<"none", TRUE>>,          \* the callable returned
           <<"runtime", TRUE>>,       \* the callable raised
           <<"expired", TRUE>> }      \* the callable raised credential-expired

LoginPcs == {"get_qrcode", "check_qrcode", "sleep"}

VARIABLES
    booted,             \* module body of app.py has run (line 123)
    file,               \* qqMusicCookies.json
    cookies,            \* module variable cookies
    global_credential,  \* the credential slot
    is_logging_in,      \* the login-in-progress flag
    credential_lock,    \* 0 when free, else the task holding it
    session_credential, \* qqmusic_api.get_session().credential
    now,                \* the clock is_expired() reads
    pc,                 \* where each request coroutine is suspended
    kind,               \* what the request names, once the dispatcher has read it
    site,               \* which call of qrcode_login_example a task is in
    polls,              \* check_qrcode polls of the running login
    status,             \* HTTP status of the response, 0 while there is none
    logins,             \* login sequences the request has started
    relogins,           \* those started at line 220, after an expired error
    parses,             \* invocations of the dispatcher by the request
    tookLock,           \* the request has entered "with credential_lock" at line 162
    lres,               \* how the request's last login sequence ended
    perrors,            \* errors returned by parser.parse()
    pvalid,             \* parser.valid after parse()
    dispatched,         \* the request is being dispatched and the session credential
                        \* is still the one its guard installed
    superseded          \* a re-login for that credential has begun during the dispatch
                        \* (and, if it has ended, has installed a new credential)

shared == <<booted, file, cookies, global_credential, is_logging_in,
            credential_lock, session_credential>>
hist   == <<logins, relogins, parses, tookLock, lres, perrors, pvalid,
            dispatched, superseded>>
vars   == <<shared, now, pc, kind, site, polls, status, hist>>

\* the event-loop thread is stuck in a blocking acquire of credential_lock
ThreadBlocked == \E t \in Tasks : pc[t] \in {"wait_lock_162", "wait_lock_216"}

\* A response leaves at once: a coroutine that has returned is kept (pc "done") only
\* for the one state in which its response is looked at, then it is forgotten.
Responding == \E t \in Tasks : pc[t] = "done"

\* the event loop can run a coroutine
LoopRuns == ~ThreadBlocked /\ ~Responding

Init ==
    /\ booted = FALSE
    /\ file \in InitialFiles
    /\ cookies = {}
    /\ global_credential = NoCred
    /\ is_logging_in = FALSE
    /\ credential_lock = 0
    /\ session_credential = NoCred
    /\ now = 0
    /\ pc = [t \in Tasks |-> "idle"]
    /\ kind = [t \in Tasks |-> "unread"]
    /\ site = [t \in Tasks |-> "none"]
    /\ polls = [t \in Tasks |-> 0]
    /\ status = [t \in Tasks |-> 0]
    /\ logins = [t \in Tasks |-> 0]
    /\ relogins = [t \in Tasks |-> 0]
    /\ parses = [t \in Tasks |-> 0]
    /\ tookLock = [t \in Tasks |-> FALSE]
    /\ lres = [t \in Tasks |-> "none"]
    /\ perrors = [t \in Tasks |-> "unset"]
    /\ pvalid = [t \in Tasks |-> TRUE]
    /\ dispatched = [t \in Tasks |-> FALSE]
    /\ superseded = [t \in Tasks |-> FALSE]

\* app.py line 123: cookies = load_credential_from_file()
Startup ==
    /\ ~booted
    /\ booted' = TRUE
    /\ file' = FileAfterLoad(file)
    /\ cookies' = load_credential_from_file(file)
    /\ UNCHANGED <<global_credential, is_logging_in, credential_lock, session_credential,
                   now, pc, kind, site, polls, status, hist>>

\* time passes; once the thread is blocked nothing reads the clock any more
Tick ==
    /\ LoopRuns
    /\ now < MaxTime
    /\ now' = now + 1
    /\ UNCHANGED <<shared, pc, kind, site, polls, status, hist>>

Upd(f, t, v) == [f EXCEPT ![t] = v]

\* ------------------------------------------------------ conditions of _api_web
\* the busy check left out
NeverBusy(flag) == FALSE

\* line 155: if is_logging_in
Busy(flag) == flag

\* a lock that excludes nobody
LockAlwaysFree(holder) == TRUE

\* threading.Lock: the acquire of a "with credential_lock" succeeds at once
LockFree(holder) == holder = 0

\* line 164: global_credential is None or not (global_credential.is_expired())
NeedsStorage(gc, clock) == gc = NoCred \/ ~is_expired(gc, clock)

\* line 171: the credential built from cookies passes the check
CookieCredentialOk(c, clock) == has_musicid(c) /\ has_musickey(c) /\ is_expired(c, clock)

\* every mapping taken for a usable credential
StorageAlwaysOk(ck, clock) == TRUE

\* lines 166-174 end without raising
StorageOk(ck, clock) ==
    /\ ck # {}
    /\ CookieCredentialOk(from_cookies_dict(ck), clock)

\* the flag reset as a plain statement after the login instead of in a finally
FlagKeptOnRaise(res) == res = "raise"

\* lines 183 and 224: the flag after the try/finally around the login
FlagAfterLogin(res) == FALSE

\* line 56: elapsed_time > timeout
TimedOutChoices(n) == IF n >= MaxPolls THEN {TRUE} ELSE {TRUE, FALSE}

\* line 191 by request t: the session credential becomes c
Dispatching(t, c) ==
    [u \in Tasks |-> u = t \/ (dispatched[u] /\ session_credential = c)]

\* lines 185-195: the guard goes on with credential gc in the slot
GuardTail(t, gc) ==
    /\ global_credential' = gc
    /\ IF gc = NoCred
       THEN \* AttributeError at line 185, caught at line 192
            /\ pc' = Upd(pc, t, "done")
            /\ status' = Upd(status, t, 401)
            /\ credential_lock' = 0
            /\ UNCHANGED <<session_credential, parses, dispatched>>
       ELSE IF can_refresh(gc)
       THEN \* line 187: await refresh(), lock held
            /\ pc' = Upd(pc, t, "refresh")
            /\ credential_lock' = t
            /\ UNCHANGED <<status, session_credential, parses, dispatched>>
       ELSE \* lines 190-203
            /\ session_credential' = gc
            /\ dispatched' = Dispatching(t, gc)
            /\ credential_lock' = 0
            /\ pc' = Upd(pc, t, "parse")
            /\ parses' = Upd(parses, t, parses[t] + 1)
            /\ UNCHANGED status

\* lines 155-159: a request arrives while a login is running
FastReject(t) ==
    /\ booted /\ LoopRuns /\ pc[t] = "idle"
    /\ Busy(is_logging_in)
    /\ pc' = Upd(pc, t, "done")
    /\ status' = Upd(status, t, 503)
    /\ UNCHANGED <<shared, now, kind, site, polls, hist>>

\* line 162: the lock is held by a suspended request
BlockAtGuard(t) ==
    /\ booted /\ LoopRuns /\ pc[t] = "idle"
    /\ ~Busy(is_logging_in)
    /\ ~LockFree(credential_lock)
    /\ pc' = Upd(pc, t, "wait_lock_162")
    /\ tookLock' = Upd(tookLock, t, TRUE)
    /\ UNCHANGED <<shared, now, kind, site, polls, status, logins, relogins, parses, lres, perrors,
                   pvalid, dispatched, superseded>>

\* lines 162-179: no credential from the slot or the cookies, the login begins
GuardStartLogin(t) ==
    /\ booted /\ LoopRuns /\ pc[t] = "idle"
    /\ ~Busy(is_logging_in)
    /\ LockFree(credential_lock)
    /\ NeedsStorage(global_credential, now)
    /\ ~StorageOk(cookies, now)
    /\ credential_lock' = t
    /\ tookLock' = Upd(tookLock, t, TRUE)
    /\ is_logging_in' = TRUE
    /\ logins' = Upd(logins, t, logins[t] + 1)
    /\ site' = Upd(site, t, "guard")
    /\ pc' = Upd(pc, t, "get_qrcode")
    /\ UNCHANGED <<booted, file, cookies, global_credential, session_credential, now, kind,
                   polls, status, relogins, parses, lres, perrors, pvalid, dispatched,
                   superseded>>

\* lines 162-174 and 185-203: the slot is kept or rebuilt from the cookies
GuardPass(t) ==
    /\ booted /\ LoopRuns /\ pc[t] = "idle"
    /\ ~Busy(is_logging_in)
    /\ LockFree(credential_lock)
    /\ tookLock' = Upd(tookLock, t, TRUE)
    /\ IF NeedsStorage(global_credential, now)
       THEN /\ StorageOk(cookies, now)
            /\ GuardTail(t, from_cookies_dict(cookies))
       ELSE GuardTail(t, global_credential)
    /\ UNCHANGED <<booted, file, cookies, is_logging_in, now, kind, site, polls, logins, relogins,
                   lres, perrors, pvalid, superseded>>

\* line 187: refresh() comes back; no save follows
RefreshDone(t) ==
    /\ LoopRuns /\ pc[t] = "refresh"
    /\ \/ \* lines 190-203
          /\ global_credential' = refresh(global_credential, now)
          /\ session_credential' = global_credential'
          /\ dispatched' = Dispatching(t, global_credential')
          /\ credential_lock' = 0
          /\ pc' = Upd(pc, t, "parse")
          /\ parses' = Upd(parses, t, parses[t] + 1)
          /\ UNCHANGED status
       \/ \* refresh() raises, caught at line 192
          /\ credential_lock' = 0
          /\ pc' = Upd(pc, t, "done")
          /\ status' = Upd(status, t, 401)
          /\ UNCHANGED <<global_credential, session_credential, parses, dispatched>>
    /\ UNCHANGED <<booted, file, cookies, is_logging_in, now, kind, tookLock, site, polls, logins, relogins,
                   lres, perrors, pvalid, superseded>>

\* ------------------------------------------- qrcode_login_example and its callers
\* the credential check_qrcode hands over with the DONE event
IssuedCredential(rk, clock) ==
    [musicid |-> 1, musickey |-> 1, refresh_key |-> rk, expired_at |-> clock + TTL]

\* qrcode_login_example ends: res is "cred" (with credential c), "None" or "raise";
\* the caller goes on from line 179 (site "guard") or from line 220 (site "relogin")
LoginEnds(t, res, c) ==
    /\ lres' = Upd(lres, t, res)
    /\ site' = Upd(site, t, "none")
    /\ polls' = Upd(polls, t, 0)
    /\ is_logging_in' = FlagAfterLogin(res)
    /\ file' = IF res = "cred" THEN save_credential_to_file(c) ELSE file
    /\ superseded' = IF site[t] = "relogin" /\ res # "cred"
                     THEN [u \in Tasks |-> FALSE]
                     ELSE superseded
    /\ IF site[t] = "guard"
       THEN IF res = "raise"
            THEN \* finally at line 183, except at line 192
                 /\ credential_lock' = 0
                 /\ pc' = Upd(pc, t, "done")
                 /\ status' = Upd(status, t, 401)
                 /\ UNCHANGED <<global_credential, session_credential, parses, dispatched>>
            ELSE GuardTail(t, IF res = "cred" THEN c ELSE NoCred)
       ELSE \* lines 220-229
            /\ credential_lock' = 0
            /\ pc' = Upd(pc, t, "done")
            /\ UNCHANGED <<session_credential, parses, dispatched>>
            /\ IF res = "raise"
               THEN \* nothing catches it: the 500 handler answers
                    /\ status' = Upd(status, t, 500)
                    /\ UNCHANGED global_credential
               ELSE /\ status' = Upd(status, t, 422)
                    /\ global_credential' = IF res = "cred" THEN c ELSE NoCred

\* the login sequence goes on to its next await
LoginGoesOn(t, to, n) ==
    /\ pc' = Upd(pc, t, to)
    /\ polls' = Upd(polls, t, n)
    /\ UNCHANGED <<file, global_credential, is_logging_in, credential_lock,
                   session_credential, site, status, parses, lres, dispatched, superseded>>

\* line 48: get_qrcode comes back, then lines 51-60
GetQrcodeDone(t) ==
    /\ LoopRuns /\ pc[t] = "get_qrcode"
    /\ \/ \* a QR code, shown; the loop is entered
          \E late \in TimedOutChoices(polls[t]) :
            IF late THEN LoginEnds(t, "None", NoCred)
                    ELSE LoginGoesOn(t, "check_qrcode", polls[t])
       \/ \* LoginError, lines 75-76 and 80
          LoginEnds(t, "None", NoCred)
       \/ \* any other exception of get_qrcode or show_qrcode, lines 77-79
          LoginEnds(t, "raise", NoCred)
    /\ UNCHANGED <<booted, cookies, now, kind, tookLock, logins, relogins, perrors, pvalid>>

\* line 60: check_qrcode comes back, then lines 63-73
CheckQrcodeDone(t) ==
    /\ LoopRuns /\ pc[t] = "check_qrcode"
    /\ \/ \* QRCodeLoginEvents.DONE
          \E rk \in {0, 1} : LoginEnds(t, "cred", IssuedCredential(rk, now))
       \/ \* QRCodeLoginEvents.TIMEOUT, or LoginError
          LoginEnds(t, "None", NoCred)
       \/ \* any other exception
          LoginEnds(t, "raise", NoCred)
       \/ \* SCAN or another event: asyncio.sleep
          LoginGoesOn(t, "sleep", polls[t] + 1)
    /\ UNCHANGED <<booted, cookies, now, kind, tookLock, logins, relogins, perrors, pvalid>>

\* lines 71/73 and 55-60: the sleep ends, the loop goes round
SleepDone(t) ==
    /\ LoopRuns /\ pc[t] = "sleep"
    /\ \E late \in TimedOutChoices(polls[t]) :
         IF late THEN LoginEnds(t, "None", NoCred)
                 ELSE LoginGoesOn(t, "check_qrcode", polls[t])
    /\ UNCHANGED <<booted, cookies, now, kind, tookLock, logins, relogins, perrors, pvalid>>

\* ------------------------------------------------------------- lines 197-237
\* request u is being dispatched with the credential t is being dispatched with
InSameDispatch(t, u) ==
    u # t /\ pc[u] = "parse" /\ dispatched[u] /\ dispatched[t]

\* line 215: the error list carries the credential-expired marker
HasExpiredMarker(errors) == errors = "expired"

\* parser.valid looked at before the error list
StatusValidFirst(errors, valid) ==
    IF ~valid THEN 400
    ELSE IF errors # "none" THEN 422
    ELSE 200

\* the status of lines 227-237 for what parse() returned
StatusOf(errors, valid) ==
    IF errors # "none" THEN 422
    ELSE IF ~valid THEN 400
    ELSE 200

\* line 203 raises: lines 204-209
ParseRaises(t) ==
    /\ LoopRuns /\ pc[t] = "parse"
    /\ perrors' = Upd(perrors, t, "raised")
    /\ pc' = Upd(pc, t, "done")
    /\ status' = Upd(status, t, 500)
    /\ dispatched' = Upd(dispatched, t, FALSE)
    /\ UNCHANGED <<shared, now, kind, tookLock, site, polls, logins, relogins, parses, lres, pvalid,
                   superseded>>

\* line 203 returns <<errors, valid>> for a request of kind k
ParseResult(t, k, o) ==
    /\ o \in ParseOutcomes(k)
    /\ kind' = Upd(kind, t, k)
    /\ perrors' = Upd(perrors, t, o[1])
    /\ pvalid' = Upd(pvalid, t, o[2])

\* line 203 returns without the expired marker: lines 212-237
ParseReturns(t) ==
    /\ LoopRuns /\ pc[t] = "parse"
    /\ \E k \in ReqKinds : \E o \in ParseOutcomes(k) :
         /\ ParseResult(t, k, o)
         /\ ~HasExpiredMarker(o[1])
         /\ status' = Upd(status, t, StatusOf(o[1], o[2]))
    /\ pc' = Upd(pc, t, "done")
    /\ dispatched' = Upd(dispatched, t, FALSE)
    /\ UNCHANGED <<shared, now, site, polls, logins, relogins, parses, tookLock, lres,
                   superseded>>

\* lines 215-220: the expired marker, the lock is free, the re-login begins
ReloginStart(t) ==
    /\ LoopRuns /\ pc[t] = "parse"
    /\ \E k \in ReqKinds : \E o \in ParseOutcomes(k) :
         /\ ParseResult(t, k, o)
         /\ HasExpiredMarker(o[1])
    /\ LockFree(credential_lock)
    /\ credential_lock' = t
    /\ is_logging_in' = TRUE
    /\ logins' = Upd(logins, t, logins[t] + 1)
    /\ relogins' = Upd(relogins, t, relogins[t] + 1)
    /\ site' = Upd(site, t, "relogin")
    /\ pc' = Upd(pc, t, "get_qrcode")
    /\ dispatched' = Upd(dispatched, t, FALSE)
    /\ superseded' = [u \in Tasks |-> InSameDispatch(t, u)]
    /\ UNCHANGED <<booted, file, cookies, global_credential, session_credential, now,
                   polls, status, parses, tookLock, lres>>

\* line 216: the expired marker, the lock is held by a suspended request
BlockAtRelogin(t) ==
    /\ LoopRuns /\ pc[t] = "parse"
    /\ \E k \in ReqKinds : \E o \in ParseOutcomes(k) :
         /\ ParseResult(t, k, o)
         /\ HasExpiredMarker(o[1])
    /\ ~LockFree(credential_lock)
    /\ pc' = Upd(pc, t, "wait_lock_216")
    /\ dispatched' = Upd(dispatched, t, FALSE)
    /\ UNCHANGED <<shared, now, site, polls, status, logins, relogins, parses, tookLock, lres,
                   superseded>>

\* the response is out and the coroutine is gone: another request may come
Reset(t) ==
    /\ pc[t] = "done"
    /\ pc' = Upd(pc, t, "idle")
    /\ kind' = Upd(kind, t, "unread")
    /\ status' = Upd(status, t, 0)
    /\ logins' = Upd(logins, t, 0)
    /\ relogins' = Upd(relogins, t, 0)
    /\ parses' = Upd(parses, t, 0)
    /\ tookLock' = Upd(tookLock, t, FALSE)
    /\ lres' = Upd(lres, t, "none")
    /\ perrors' = Upd(perrors, t, "unset")
    /\ pvalid' = Upd(pvalid, t, TRUE)
    /\ dispatched' = Upd(dispatched, t, FALSE)
    /\ superseded' = Upd(superseded, t, FALSE)
    /\ UNCHANGED <<shared, now, site, polls>>

Next ==
    \/ Startup
    \/ Tick
    \/ \E t \in Tasks : FastReject(t)
    \/ \E t \in Tasks : BlockAtGuard(t)
    \/ \E t \in Tasks : GuardStartLogin(t)
    \/ \E t \in Tasks : GuardPass(t)
    \/ \E t \in Tasks : RefreshDone(t)
    \/ \E t \in Tasks : GetQrcodeDone(t)
    \/ \E t \in Tasks : CheckQrcodeDone(t)
    \/ \E t \in Tasks : SleepDone(t)
    \/ \E t \in Tasks : ParseRaises(t)
    \/ \E t \in Tasks : ParseReturns(t)
    \/ \E t \in Tasks : ReloginStart(t)
    \/ \E t \in Tasks : BlockAtRelogin(t)
    \/ \E t \in Tasks : Reset(t)

Spec == Init /\ [][Next]_vars

TypeOK ==
    /\ booted \in BOOLEAN
    /\ is_logging_in \in BOOLEAN
    /\ credential_lock \in {0} \cup Tasks
    /\ now \in 0..MaxTime
    /\ \A t \in Tasks : status[t] \in {0, 200, 400, 401, 422, 500, 503}

\* ------------------------------------------- storage functions on their own
\* The credentials save_credential_to_file may be handed (line 111)
CredentialInputs ==
    [musicid : {0, 1}, musickey : {0, 1}, refresh_key : {0, 1}, expired_at : 0..TTL]

\* a process holding any credential over any storage file; task 1 is the caller
RoundTripInit ==
    /\ booted = FALSE
    /\ file \in InitialFiles
    /\ cookies = {}
    /\ global_credential \in CredentialInputs
    /\ is_logging_in = FALSE
    /\ credential_lock = 0
    /\ session_credential = NoCred
    /\ now = 0
    /\ pc = [t \in Tasks |-> "idle"]
    /\ kind = [t \in Tasks |-> "unread"]
    /\ site = [t \in Tasks |-> "none"]
    /\ polls = [t \in Tasks |-> 0]
    /\ status = [t \in Tasks |-> 0]
    /\ logins = [t \in Tasks |-> 0]
    /\ relogins = [t \in Tasks |-> 0]
    /\ parses = [t \in Tasks |-> 0]
    /\ tookLock = [t \in Tasks |-> FALSE]
    /\ lres = [t \in Tasks |-> "none"]
    /\ perrors = [t \in Tasks |-> "unset"]
    /\ pvalid = [t \in Tasks |-> TRUE]
    /\ dispatched = [t \in Tasks |-> FALSE]
    /\ superseded = [t \in Tasks |-> FALSE]

\* lines 111-119: save_credential_to_file(global_credential)
SaveStep ==
    /\ pc[1] = "idle"
    /\ file' = save_credential_to_file(global_credential)
    /\ pc' = Upd(pc, 1, "saved")
    /\ UNCHANGED <<booted, cookies, global_credential, is_logging_in, credential_lock,
                   session_credential, now, kind, site, polls, status, hist>>

\* lines 94-108 and 123: cookies = load_credential_from_file(), on the file as it
\* was found ("loaded") or on the file just saved ("reloaded")
LoadStep ==
    /\ pc[1] \in {"idle", "saved"}
    /\ file' = FileAfterLoad(file)
    /\ cookies' = load_credential_from_file(file)
    /\ booted' = TRUE
    /\ pc' = Upd(pc, 1, IF pc[1] = "saved" THEN "reloaded" ELSE "loaded")
    /\ UNCHANGED <<global_credential, is_logging_in, credential_lock,
                   session_credential, now, kind, site, polls, status, hist>>

\* line 170: Credential.from_cookies_dict(cookies); the credential before the
\* save stays in the slot, the rebuilt one goes to the session
RebuildStep ==
    /\ pc[1] \in {"loaded", "reloaded"}
    /\ session_credential' = from_cookies_dict(cookies)
    /\ pc' = Upd(pc, 1, IF pc[1] = "reloaded" THEN "rebuilt" ELSE "built")
    /\ UNCHANGED <<booted, file, cookies, global_credential, is_logging_in, credential_lock,
                   now, kind, site, polls, status, hist>>

RoundTripNext == SaveStep \/ LoadStep \/ RebuildStep

RoundTripSpec == RoundTripInit /\ [][RoundTripNext]_vars

\* ================================================================= claims
InLogin(t) == pc[t] \in LoginPcs

\* a request arrives: its coroutine takes its first step
Arrives(t) == pc[t] = "idle" /\ pc'[t] # "idle"

\* the slot holds a credential with its required fields that is not expired
SlotUsable ==
    /\ global_credential # NoCred
    /\ has_musicid(global_credential) /\ has_musickey(global_credential)
    /\ ~is_expired(global_credential, now)

\* C1: at most one login sequence is in progress at any time, whether it was
\* started by the guard's storage fallback or by the expired-error re-login.
C1_OneLoginAtATime ==
    \A t, u \in Tasks : (InLogin(t) /\ InLogin(u)) => t = u

\* a re-login is running while another request is past the guard
C1_Witness ==
    \E t, u \in Tasks : t # u /\ InLogin(t) /\ site[t] = "relogin" /\ pc[u] = "parse"

\* C2: the flag is set exactly while some request is inside a login sequence;
\* it is clear once the login has ended, whatever its outcome.
C2_FlagOnlyDuringLogin ==
    is_logging_in <=> \E t \in Tasks : InLogin(t)

\* a login has ended by raising and the flag is clear
C2_Witness ==
    \E t \in Tasks : pc[t] = "done" /\ lres[t] = "raise" /\ ~is_logging_in

\* C3: a request that arrives while the flag is set answers 503 in that very
\* step: it neither waits for the lock nor invokes the dispatcher, and the slot,
\* the flag, the lock, the session credential and the storage stay as they are.
C3_FastReject ==
    [][\A t \in Tasks :
         (Arrives(t) /\ is_logging_in) =>
            /\ pc'[t] = "done" /\ status'[t] = 503
            /\ parses'[t] = 0 /\ ~tookLock'[t]
            /\ UNCHANGED <<global_credential, is_logging_in, credential_lock,
                           session_credential, file>>]_vars

\* a request has been answered 503 while another one is logging in
C3_Witness ==
    \E t, u \in Tasks : pc[t] = "done" /\ status[t] = 503 /\ InLogin(u) /\ is_logging_in

\* the slot holds the credential the last successful login stored, still usable
LoginInstalled ==
    SlotUsable /\ file = save_credential_to_file(global_credential)

\* C4: of two requests arriving together without a valid credential one logs in
\* and the other is answered 503; a request that arrives after the login has
\* succeeded starts no further login.
C4_ThirdRequestNoLogin ==
    [][\A t \in Tasks :
         /\ (Arrives(t) /\ \E u \in Tasks : InLogin(u) /\ site[u] = "guard")
               => (pc'[t] = "done" /\ status'[t] = 503)
         /\ (Arrives(t) /\ LoginInstalled /\ ~is_logging_in /\ credential_lock = 0)
               => pc'[t] \notin LoginPcs]_vars

\* C5: a request that finds a usable credential in the slot neither rebuilds it
\* from storage nor logs in, and leaves the slot as it is.
C5_UsableSlotKept ==
    [][\A t \in Tasks :
         (Arrives(t) /\ SlotUsable /\ ~is_logging_in /\ credential_lock = 0)
            => (global_credential' = global_credential /\ pc'[t] \notin LoginPcs)]_vars

\* C6: a request naming an unknown module or function gets the not-found error
\* without any guard logic: no lock taken, no login started.
C6_UnknownNoGuard ==
    \A t \in Tasks :
        (pc[t] = "done" /\ kind[t] = "unknown")
            => (perrors[t] = "notfound" /\ ~tookLock[t] /\ logins[t] = 0)

\* C7: with no request in progress and a credential in the slot, the storage
\* holds that credential's serialized form (it is written after every
\* successful login and every successful refresh).
C7_StorageFollowsSlot ==
    ((\A t \in Tasks : pc[t] = "idle") /\ global_credential # NoCred)
        => file = save_credential_to_file(global_credential)

\* C8: a request whose login sequence failed (None returned, or an exception)
\* is answered 401 and the flag is clear, for the guard's login and for the
\* re-login alike.
C8_LoginFailureIs401 ==
    \A t \in Tasks :
        (pc[t] = "done" /\ lres[t] \in {"None", "raise"})
            => (status[t] = 401 /\ ~is_logging_in)

\* C9: a request whose dispatcher reported the expired marker makes exactly one
\* re-login attempt, holding the lock and with the flag set throughout, and then
\* returns the dispatcher's errors, having invoked the dispatcher once.
C9_OneReloginThenError ==
    /\ \A t \in Tasks :
         (InLogin(t) /\ site[t] = "relogin")
            => (credential_lock = t /\ is_logging_in /\ relogins[t] = 1 /\ parses[t] = 1)
    /\ \A t \in Tasks :
         (pc[t] = "done" /\ perrors[t] = "expired")
            => (status[t] = 422 /\ relogins[t] = 1 /\ parses[t] = 1)

C12_LockFreeDuringIO ==
    \A t \in Tasks : (InLogin(t) \/ pc[t] = "refresh") => credential_lock # t

\* C13: the flag is set while a refresh() call is running, as it is while a
\* login sequence is running.
C13_FlagDuringRefresh ==
    \A t \in Tasks : (InLogin(t) \/ pc[t] = "refresh") => is_logging_in

\* the request goes from its dispatch into the re-login of line 220
StartsRelogin(t) == pc[t] = "parse" /\ pc'[t] \in LoginPcs

\* C14: a request dispatched with the same credential as one whose re-login has
\* installed a new credential starts no further login for its own expired error.
C14_ReloginOnce ==
    [][\A t \in Tasks : superseded[t] => ~StartsRelogin(t)]_vars

\* request t invokes the dispatcher in this step
Dispatches(t) == parses'[t] > parses[t]

\* C15: at every invocation of the dispatcher the session credential is there,
\* has its id and key and is not expired.
C15_DispatchWithValidCredential ==
    [][\A t \in Tasks :
         Dispatches(t) =>
            /\ session_credential' # NoCred
            /\ has_musicid(session_credential') /\ has_musickey(session_credential')
            /\ ~is_expired(session_credential', now')]_vars

\* lines 166-172 raise: the cookies are empty or the credential built from them
\* fails the check of line 171
StorageFails ==
    \/ cookies = {}
    \/ ~CookieCredentialOk(from_cookies_dict(cookies), now)

\* C16: a request whose guard cannot build a credential from the cookies starts a
\* login in that very step instead of answering, and is answered by what the
\* login gave: 401 when it returned None or raised, and after a credential the
\* rest of the handler decides (401 then only if refresh() of it failed).
C16_StorageFailureLeadsToLogin ==
    /\ [][\A t \in Tasks :
            (Arrives(t) /\ ~is_logging_in /\ credential_lock = 0
                /\ NeedsStorage(global_credential, now) /\ StorageFails)
               => (InLogin(t)' /\ status'[t] = 0 /\ logins'[t] = 1)]_vars
    /\ [](\A t \in Tasks :
            (pc[t] = "done" /\ logins[t] = 1 /\ relogins[t] = 0) =>
               /\ lres[t] \in {"None", "raise"} => status[t] = 401
               /\ lres[t] = "cred" =>
                     \/ status[t] \in {200, 400, 422, 500}
                     \/ status[t] = 401 /\ can_refresh(global_credential))

\* with empty cookies a request has logged in and been answered 200
C16_Witness ==
    \E t \in Tasks :
        /\ pc[t] = "done" /\ cookies = {}
        /\ logins[t] = 1 /\ relogins[t] = 0 /\ lres[t] = "cred" /\ status[t] = 200

\* C17: no request is ever blocked on credential_lock while the holder of the
\* lock is suspended on the same thread.
C17_NoRequestBlocked ==
    \A t \in Tasks :
        pc[t] \in {"wait_lock_162", "wait_lock_216"}
            => (credential_lock = 0 \/ pc[credential_lock] = "idle")

\* C18: whenever the guard falls back to the storage, the mapping it builds the
\* credential from is what the storage file holds at that moment.
C18_FallbackReadsStorage ==
    [][\A t \in Tasks :
         (Arrives(t) /\ ~is_logging_in /\ credential_lock = 0
             /\ NeedsStorage(global_credential, now))
            => cookies = load_credential_from_file(file)]_vars

\* C19: the session credential changes only in a step in which a request, the
\* lock being its own, ends its guard and invokes the dispatcher; it is then the
\* slot's value and not None, and the request has had no response; no step of a
\* re-login touches the session credential.
C19_SessionSetByGuard ==
    [][/\ session_credential' # session_credential => \E t \in Tasks : Dispatches(t)
       /\ \A t \in Tasks :
            Dispatches(t) =>
               /\ credential_lock \in {0, t} /\ tookLock'[t]
               /\ status[t] = 0 /\ status'[t] = 0
               /\ session_credential' = global_credential'
               /\ session_credential' # NoCred
       /\ \A t \in Tasks :
            (site[t] = "relogin" /\ pc'[t] # pc[t])
               => session_credential' = session_credential]_vars

\* a request is being dispatched, its guard having run after a re-login replaced
\* the slot while another request, still running, was being dispatched
C19_Witness ==
    \E t, u \in Tasks :
        /\ t # u /\ ~is_logging_in
        /\ pc[u] = "parse" /\ superseded[u]
        /\ pc[t] = "parse" /\ ~superseded[t] /\ dispatched[t]
        /\ session_credential = global_credential

====
